---- MODULE Spec2Model ----
(***************************************************************************)
(* Model of scripts/generate-latest-json.py: one run of the manifest       *)
(* builder.  Text (file names, versions, digests, documents, urls) is a    *)
(* sequence of one-character strings, so that stripping, splitting,        *)
(* lower-casing, globbing and the release-notes regular expression are     *)
(* computed character by character as the script computes them.            *)
(***************************************************************************)
EXTENDS Integers, Sequences, FiniteSets, TLC

VARIABLES argv, dir_exists, assets_dir, release_notes_file, out_files,
          pc, scan_idx, platforms, notes, stdout, reads, exit_status, writes

vars == <<argv, dir_exists, assets_dir, release_notes_file, out_files,
          pc, scan_idx, platforms, notes, stdout, reads, exit_status, writes>>

(* ---------------- bounds of the explored input space ------------------- *)
\* at most this many files in assets_dir, sidecar files included
MaxFiles == 2
\* at most this many lines in RELEASE_NOTES.md
MaxLines == 3

(* ---------------- string literals of the script ------------------------ *)
HeadingPrefix ==
  <<"#", " ", "C", "o", "d", "e", " ", "S", "w", "i", "t", "c", "h", " ", "v">>

BaseUrlPrefix ==
  <<"h", "t", "t", "p", "s", ":", "/", "/", "g", "i", "t", "h", "u", "b", ".", "c", "o", "m", "/", "R", "o", "g", "e", "r", "s", "-", "F", "/", "c", "o", "d", "e", "-", "s", "w", "i", "t", "c", "h", "-", "R", "/", "r", "e", "l", "e", "a", "s", "e", "s", "/", "d", "o", "w", "n", "l", "o", "a", "d", "/", "v">>

CodeSwitchV ==
  <<"C", "o", "d", "e", "S", "w", "i", "t", "c", "h", "-", "v">>

ExtExe ==
  <<".", "e", "x", "e">>

ExtInstaller ==
  <<"-", "a", "m", "d", "6", "4", "-", "i", "n", "s", "t", "a", "l", "l", "e", "r", ".", "e", "x", "e">>

ExtMacArm ==
  <<"-", "m", "a", "c", "o", "s", "-", "a", "r", "m", "6", "4", ".", "z", "i", "p">>

ExtMacAmd ==
  <<"-", "m", "a", "c", "o", "s", "-", "a", "m", "d", "6", "4", ".", "z", "i", "p">>

ExtAppImage ==
  <<".", "A", "p", "p", "I", "m", "a", "g", "e">>

FallbackExe ==
  <<"C", "o", "d", "e", "S", "w", "i", "t", "c", "h", ".", "e", "x", "e">>

FallbackInstaller ==
  <<"C", "o", "d", "e", "S", "w", "i", "t", "c", "h", "-", "a", "m", "d", "6", "4", "-", "i", "n", "s", "t", "a", "l", "l", "e", "r", ".", "e", "x", "e">>

FallbackMacArm ==
  <<"c", "o", "d", "e", "s", "w", "i", "t", "c", "h", "-", "m", "a", "c", "o", "s", "-", "a", "r", "m", "6", "4", ".", "z", "i", "p">>

FallbackMacAmd ==
  <<"c", "o", "d", "e", "s", "w", "i", "t", "c", "h", "-", "m", "a", "c", "o", "s", "-", "a", "m", "d", "6", "4", ".", "z", "i", "p">>

FallbackAppImage ==
  <<"C", "o", "d", "e", "S", "w", "i", "t", "c", "h", ".", "A", "p", "p", "I", "m", "a", "g", "e">>

Sha256Suffix ==
  <<".", "s", "h", "a", "2", "5", "6">>

(* ---------------- text primitives (Python str methods) ----------------- *)
NoFile == <<"<absent>">>

Whitespace == {" ", "\n", "\t"}

Min(S) == CHOOSE x \in S : \A y \in S : x <= y

Max(S) == CHOOSE x \in S : \A y \in S : x >= y

\* str.strip(): drop leading and trailing whitespace characters
Strip(s) ==
  LET keep == {i \in 1..Len(s) : s[i] \notin Whitespace}
  IN  IF keep = {} THEN <<>> ELSE SubSeq(s, Min(keep), Max(keep))

\* str.lstrip("v"): drop every leading "v"
LStripOnce(s) ==
  IF Len(s) > 0 /\ s[1] = "v" THEN SubSeq(s, 2, Len(s)) ELSE s

LStripV(s) ==
  LET keep == {i \in 1..Len(s) : s[i] # "v"}
  IN  IF keep = {} THEN <<>> ELSE SubSeq(s, Min(keep), Len(s))

\* str.split()[0] on a stripped, non-empty text: the first whitespace-separated token
FirstToken(s) ==
  LET ws == {i \in 1..Len(s) : s[i] \in Whitespace}
  IN  IF ws = {} THEN s ELSE SubSeq(s, 1, Min(ws) - 1)

LowerChar(c) ==
  CASE c = "A" -> "a" [] c = "B" -> "b" [] c = "C" -> "c"
    [] c = "D" -> "d" [] c = "E" -> "e" [] c = "F" -> "f"
    [] OTHER -> c

\* str.lower()
Lower(s) == [i \in 1..Len(s) |-> LowerChar(s[i])]

\* str.startswith(p), tested at position i
StartsWithAt(s, i, p) ==
  /\ i + Len(p) - 1 <= Len(s)
  /\ \A k \in 1..Len(p) : s[i + k - 1] = p[k]

\* str.split("\n")
SplitLines(s) ==
  LET nl == {i \in 1..Len(s) : s[i] = "\n"}
      cuts == {0} \cup nl \cup {Len(s) + 1}
      n == Cardinality(nl) + 1
      Cut(k) == CHOOSE c \in cuts : Cardinality({d \in cuts : d < c}) = k
  IN  [k \in 1..n |-> SubSeq(s, Cut(k - 1) + 1, Cut(k) - 1)]

\* "\n".join(lines)
RECURSIVE JoinLines(_)
JoinLines(lines) ==
  IF Len(lines) = 0 THEN <<>>
  ELSE IF Len(lines) = 1 THEN lines[1]
  ELSE lines[1] \o <<"\n">> \o JoinLines(Tail(lines))

(* ---------------- files, digests, sizes -------------------------------- *)
\* hashlib.sha256(...).hexdigest(): lower-case hex, one digest per content
\* (digests are shortened to two hex digits; distinct contents keep distinct digests)
compute_sha256(content) ==
  CASE content = <<>> -> <<"e", "3">>
    [] content = <<1>> -> <<"4", "b">>
    [] OTHER -> <<"0", "0">>

\* Path.stat().st_size
get_file_size(content) == Len(content)

\* Path.suffix: from the last dot on, unless that dot is first or last
Suffix(name) ==
  LET dots == {i \in 1..Len(name) : name[i] = "."}
  IN  IF dots = {} THEN <<>>
      ELSE IF 1 < Max(dots) /\ Max(dots) < Len(name)
           THEN SubSeq(name, Max(dots), Len(name))
           ELSE <<>>

\* Path.with_suffix(new): replace the suffix by new
WithSuffix(name, new) ==
  SubSeq(name, 1, Len(name) - Len(Suffix(name))) \o new

\* asset_file.with_suffix(asset_file.suffix + ".sha256")
SidecarName(name) == WithSuffix(name, Suffix(name) \o Sha256Suffix)

(* ---------------- the platform table ----------------------------------- *)
PlatformKeys ==
  <<"windows-x86_64", "windows-x86_64-installer", "darwin-aarch64",
    "darwin-x86_64", "linux-x86_64">>

VersionedName(key, vc) ==
  CodeSwitchV \o vc \o
    (CASE key = "windows-x86_64" -> ExtExe
       [] key = "windows-x86_64-installer" -> ExtInstaller
       [] key = "darwin-aarch64" -> ExtMacArm
       [] key = "darwin-x86_64" -> ExtMacAmd
       [] key = "linux-x86_64" -> ExtAppImage)

FallbackName(key) ==
  CASE key = "windows-x86_64" -> FallbackExe
    [] key = "windows-x86_64-installer" -> FallbackInstaller
    [] key = "darwin-aarch64" -> FallbackMacArm
    [] key = "darwin-x86_64" -> FallbackMacAmd
    [] key = "linux-x86_64" -> FallbackAppImage

platform_configs(vc) ==
  [key \in {PlatformKeys[i] : i \in 1..Len(PlatformKeys)} |->
     [patterns |-> <<VersionedName(key, vc), FallbackName(key)>>,
      filename |-> VersionedName(key, vc)]]

base_url(vc) == BaseUrlPrefix \o vc

(* ---------------- asset discovery -------------------------------------- *)
\* fnmatch of one name against one pattern; the patterns built from the
\* versions explored here hold no glob metacharacter, so a pattern matches
\* exactly the name spelled like it
GlobMatch(pattern, name) == pattern = name

\* assets_dir.glob(pattern): the names of the directory the pattern matches
Glob(dir, pattern) == {n \in DOMAIN dir : GlobMatch(pattern, n)}

NoAsset == <<"<none>">>

find_asset_fallback_first(dir, patterns) ==
  LET hits == {k \in 1..Len(patterns) : Glob(dir, patterns[k]) # {}}
  IN  IF hits = {} THEN NoAsset
      ELSE CHOOSE n \in Glob(dir, patterns[Max(hits)]) : TRUE

find_asset_first_pattern_only(dir, patterns) ==
  IF Glob(dir, patterns[1]) = {} THEN NoAsset
  ELSE CHOOSE n \in Glob(dir, patterns[1]) : TRUE

\* the first pattern with a match wins; matches[0] of its matches
find_asset(dir, patterns) ==
  LET hits == {k \in 1..Len(patterns) : Glob(dir, patterns[k]) # {}}
  IN  IF hits = {} THEN NoAsset
      ELSE CHOOSE n \in Glob(dir, patterns[Min(hits)]) : TRUE

(* ---------------- sidecar cross-check ---------------------------------- *)
SidecarMismatchCaseSensitive(dir, name, sha256) ==
  /\ SidecarName(name) \in DOMAIN dir
  /\ \E content \in {Strip(dir[SidecarName(name)])} :
       /\ content # <<>>
       /\ \E file_sha256 \in {FirstToken(content)} : file_sha256 # sha256

\* lines 95-102: TRUE exactly when the mismatch warning is printed
SidecarMismatch(dir, name, sha256) ==
  /\ SidecarName(name) \in DOMAIN dir
  /\ \E content \in {Strip(dir[SidecarName(name)])} :
       /\ content # <<>>
       /\ \E file_sha256 \in {FirstToken(content)} :
            Lower(file_sha256) # Lower(sha256)

(* ---------------- release-notes extraction ----------------------------- *)
\* one pattern character against one text character; version_clean is
\* interpolated unescaped, so its "." is the regex wildcard (re.DOTALL)
RegexCharMatch(p, c) == p = "." \/ p = c

RegexPrefixAt(s, i, pat) ==
  /\ i + Len(pat) - 1 <= Len(s)
  /\ \A k \in 1..Len(pat) : RegexCharMatch(pat[k], s[i + k - 1])

\* re.search(rf"# Code Switch v{version_clean}.*?(?=# Code Switch v|\Z)", content, re.DOTALL)
\* returns <<>> for no match, else <<group0>>
SearchSection(content, vc) ==
  LET pat == HeadingPrefix \o vc
      starts == {i \in 1..Len(content) : RegexPrefixAt(content, i, pat)}
  IN  IF starts = {} THEN <<>>
      ELSE LET i0 == Min(starts)
               stops == {j \in (i0 + Len(pat))..Len(content) :
                           StartsWithAt(content, j, HeadingPrefix)}
               e == IF stops = {} THEN Len(content) + 1 ELSE Min(stops)
           IN  <<SubSeq(content, i0, e - 1)>>

\* lines 128-130: drop the first line when it starts with "# "
\* (each intermediate value is bound once, as the script binds its locals)
RemoveHeadingLine(stripped) ==
  CHOOSE r \in {IF Len(lines) > 0 /\ StartsWithAt(lines[1], 1, <<"#", " ">>)
                THEN Strip(JoinLines(Tail(lines)))
                ELSE stripped : lines \in {SplitLines(stripped)}} : TRUE

\* lines 125-130: notes out of the match object (<<>> is None)
NotesOfMatch(m) ==
  IF m = <<>> THEN <<>>
  ELSE CHOOSE r \in {RemoveHeadingLine(stripped) : stripped \in {Strip(m[1])}} : TRUE

\* lines 117-130
ExtractNotes(file, vc) ==
  IF file = NoFile THEN <<>>
  ELSE CHOOSE r \in {NotesOfMatch(m) : m \in {SearchSection(file, vc)}} : TRUE

(* ---------------- inputs ----------------------------------------------- *)
Versions == {<<"1">>, <<"v", "v", "1">>, <<"1", "2">>}

AssetsDirArg == "release-assets"

OutputArg == "out.json"

DefaultOutput == "latest.json"

\* datetime.now(timezone.utc).isoformat(): whatever the clock says
Times == {"2025-01-01T00:00:00+00:00", "2025-01-02T00:00:00+00:00"}

PlatformKeySet == {PlatformKeys[i] : i \in 1..Len(PlatformKeys)}

\* names a release directory may hold: the assets of release 1 and the unversioned ones
CandidateNames ==
  {VersionedName(k, <<"1">>) : k \in PlatformKeySet} \cup {FallbackName(k) : k \in PlatformKeySet}

AssetContents == {<<>>, <<1>>}

SidecarTexts ==
  {<<>>, <<"\n">>, <<"E", "3", " ", "x", "\n">>, <<"4", "b">>}

DirOf(f, g) ==
  LET side == {SidecarName(n) : n \in DOMAIN g}
  IN  [n \in DOMAIN f \cup side |->
         IF n \in DOMAIN f THEN f[n]
         ELSE g[CHOOSE a \in DOMAIN g : SidecarName(a) = n]]

DirsOver(names) ==
  UNION { UNION { {DirOf(f, g) : f \in [S -> AssetContents], g \in [T -> SidecarTexts]} :
                   T \in {T \in SUBSET S : Cardinality(S) + Cardinality(T) <= MaxFiles} } :
          S \in {S \in SUBSET names : Cardinality(S) <= MaxFiles} }

\* complete releases: every platform's versioned asset, unversioned asset, or both
FullDirs ==
  {[n \in {VersionedName(k, <<"1">>) : k \in PlatformKeySet} |-> <<1>>],
   [n \in {FallbackName(k) : k \in PlatformKeySet} |-> <<>>],
   [n \in {VersionedName(k, <<"1">>) : k \in PlatformKeySet}
           \cup {FallbackName(k) : k \in PlatformKeySet} |->
      IF n \in {FallbackName(k) : k \in PlatformKeySet} THEN <<>> ELSE <<1>>]}

AssetDirs == DirsOver(CandidateNames) \cup FullDirs

\* the directories holding linux assets only
LinuxDirs ==
  DirsOver({VersionedName("linux-x86_64", <<"1">>), FallbackName("linux-x86_64")})

NoteLines ==
  {HeadingPrefix \o <<"1">>, HeadingPrefix \o <<"1", "2">>,
   <<"F", "o", "o">>, <<"B", "a", "r">>, <<>>}

NoteDocs ==
  {NoFile} \cup UNION { {JoinLines(ls) : ls \in [1..n -> NoteLines]} : n \in 0..MaxLines }

\* the few documents and directories used where the other input is explored in full
FewDocs == {NoFile, JoinLines(<<HeadingPrefix \o <<"1">>, <<"F", "o", "o">>>>)}

FewDirs ==
  {DirOf(f, g) : f \in [{FallbackName("linux-x86_64")} -> AssetContents],
                 g \in [{FallbackName("linux-x86_64")} -> {<<"4", "b">>}]}
  \cup {<<>>}

OldContent == [kind |-> "old"]

Absent == [kind |-> "absent"]

InitWith(dirs, docs) ==
  /\ \E v \in Versions, n \in 0..3 :
       argv = SubSeq(<<v, AssetsDirArg, OutputArg>>, 1, n)
  /\ \E d \in dirs :
       \/ dir_exists = TRUE /\ assets_dir = d
       \/ dir_exists = FALSE /\ assets_dir = <<>>
  /\ release_notes_file \in docs
  /\ out_files = [p \in {DefaultOutput, OutputArg} |->
                    IF p = DefaultOutput THEN OldContent ELSE Absent]
  /\ pc = "args"
  /\ scan_idx = 1
  /\ platforms = <<>>
  /\ notes = <<>>
  /\ stdout = <<>>
  /\ reads = {}
  /\ exit_status = -1
  /\ writes = 0

Init == InitWith(AssetDirs, FewDocs)

InitNotes == InitWith(FewDirs, NoteDocs)

(* ---------------- the run ---------------------------------------------- *)
Line(msg, name, computed, from_file) ==
  [msg |-> msg, name |-> name, computed |-> computed, from_file |-> from_file]

version == argv[1]

\* line 56
version_clean == LStripV(version)

\* line 49
output_file == IF Len(argv) > 2 THEN argv[3] ELSE DefaultOutput

\* lines 40-49
CheckArgs ==
  /\ pc = "args"
  /\ IF Len(argv) < 2
     THEN /\ stdout' = Append(stdout, Line("usage", <<>>, <<>>, <<>>))
          /\ exit_status' = 1
          /\ pc' = "done"
     ELSE /\ pc' = "dir"
          /\ UNCHANGED <<stdout, exit_status>>
  /\ UNCHANGED <<argv, dir_exists, assets_dir, release_notes_file, out_files,
                 scan_idx, platforms, notes, reads, writes>>

CheckDirWarnOnly ==
  /\ pc = "dir"
  /\ stdout' = IF ~dir_exists
               THEN Append(stdout, Line("no-assets-dir", <<>>, <<>>, <<>>))
               ELSE stdout
  /\ pc' = "scan"
  /\ UNCHANGED <<argv, dir_exists, assets_dir, release_notes_file, out_files,
                 scan_idx, platforms, notes, reads, exit_status, writes>>

\* lines 51-53
CheckDir ==
  /\ pc = "dir"
  /\ IF ~dir_exists
     THEN /\ stdout' = Append(stdout, Line("no-assets-dir", <<>>, <<>>, <<>>))
          /\ exit_status' = 1
          /\ pc' = "done"
     ELSE /\ pc' = "scan"
          /\ UNCHANGED <<stdout, exit_status>>
  /\ UNCHANGED <<argv, dir_exists, assets_dir, release_notes_file, out_files,
                 scan_idx, platforms, notes, reads, writes>>

RecordUrlFromAsset(key, asset_file, sha256, size) ==
  [url |-> base_url(version_clean) \o <<"/">> \o asset_file,
   sha256 |-> sha256, size |-> size]

RecordSidecarDigest(key, asset_file, sha256, size) ==
  [url |-> base_url(version_clean) \o <<"/">> \o platform_configs(version_clean)[key].filename,
   sha256 |-> IF SidecarMismatch(assets_dir, asset_file, sha256)
              THEN FirstToken(Strip(assets_dir[SidecarName(asset_file)]))
              ELSE sha256,
   size |-> size]

\* lines 107-111
Record(key, asset_file, sha256, size) ==
  [url |-> base_url(version_clean) \o <<"/">> \o platform_configs(version_clean)[key].filename,
   sha256 |-> sha256, size |-> size]

AddKey(f, k, v) == [x \in DOMAIN f \cup {k} |-> IF x = k THEN v ELSE f[x]]

\* lines 87-114: one turn of the loop over platform_configs
ScanPlatform ==
  /\ pc = "scan"
  /\ \E key \in {PlatformKeys[scan_idx]} :
     \E asset_file \in {find_asset(assets_dir, platform_configs(version_clean)[key].patterns)} :
       IF asset_file # NoAsset
       THEN \E sha256 \in {compute_sha256(assets_dir[asset_file])},
               size \in {get_file_size(assets_dir[asset_file])} :
              /\ platforms' = AddKey(platforms, key, Record(key, asset_file, sha256, size))
              /\ reads' = reads \cup {asset_file}
                           \cup (IF SidecarName(asset_file) \in DOMAIN assets_dir
                                 THEN {SidecarName(asset_file)} ELSE {})
              /\ stdout' = stdout
                   \o (IF SidecarMismatch(assets_dir, asset_file, sha256)
                       THEN <<Line("mismatch", asset_file, sha256,
                                   FirstToken(Strip(assets_dir[SidecarName(asset_file)])))>>
                       ELSE <<>>)
                   \o <<Line("found", asset_file, <<>>, <<>>)>>
       ELSE /\ stdout' = Append(stdout, Line("no-asset", <<>>, <<>>, <<>>))
            /\ UNCHANGED <<platforms, reads>>
  /\ scan_idx' = scan_idx + 1
  /\ pc' = IF scan_idx < Len(PlatformKeys) THEN "scan" ELSE "notes"
  /\ UNCHANGED <<argv, dir_exists, assets_dir, release_notes_file, out_files,
                 notes, exit_status, writes>>

ReadReleaseNotesNoExistsCheck ==
  /\ pc = "notes"
  /\ IF release_notes_file = NoFile
     THEN /\ exit_status' = 1
          /\ pc' = "done"
          /\ UNCHANGED notes
     ELSE /\ notes' = ExtractNotes(release_notes_file, version_clean)
          /\ pc' = "write"
          /\ UNCHANGED exit_status
  /\ UNCHANGED <<argv, dir_exists, assets_dir, release_notes_file, out_files,
                 scan_idx, platforms, stdout, reads, writes>>

\* lines 116-130
ReadReleaseNotes ==
  /\ pc = "notes"
  /\ notes' = ExtractNotes(release_notes_file, version_clean)
  /\ pc' = "write"
  /\ UNCHANGED <<argv, dir_exists, assets_dir, release_notes_file, out_files,
                 scan_idx, platforms, stdout, reads, exit_status, writes>>

\* lines 132-145, and the normal end of the process
WriteManifest ==
  /\ pc = "write"
  /\ \E now \in Times :
       LET manifest == [version |-> <<"v">> \o version_clean,
                        pub_date |-> now,
                        notes |-> notes,
                        platforms |-> platforms]
       IN  /\ out_files' = [out_files EXCEPT ![output_file] =
                              [kind |-> "manifest", json |-> manifest]]
           /\ stdout' = Append(stdout, Line("generated", <<>>, <<>>, <<>>))
  /\ writes' = writes + 1
  /\ exit_status' = 0
  /\ pc' = "done"
  /\ UNCHANGED <<argv, dir_exists, assets_dir, release_notes_file,
                 scan_idx, platforms, notes, reads>>

Next == CheckArgs \/ CheckDir \/ ScanPlatform \/ ReadReleaseNotes \/ WriteManifest

Spec == Init /\ [][Next]_vars

NotesSpec == InitNotes /\ [][Next]_vars

InitLinux == InitWith(LinuxDirs, FewDocs)

FairSpec == InitLinux /\ [][Next]_vars /\ WF_vars(Next)

(* ======================= properties ==================================== *)
KeyIndex(key) == CHOOSE i \in 1..Len(PlatformKeys) : PlatformKeys[i] = key

\* the platform's turn of the loop is over
Scanned(key) == pc \in {"scan", "notes", "write", "done"} /\ scan_idx > KeyIndex(key)

\* the file the platform's asset is expected to be: the versioned one, else the fallback
SelectedFile(key) ==
  IF VersionedName(key, version_clean) \in DOMAIN assets_dir
  THEN VersionedName(key, version_clean)
  ELSE IF FallbackName(key) \in DOMAIN assets_dir THEN FallbackName(key) ELSE NoAsset

Written == out_files[output_file].kind = "manifest"

Manifest == out_files[output_file].json

HasSidecarToken(f) ==
  /\ (f \o Sha256Suffix) \in DOMAIN assets_dir
  /\ Strip(assets_dir[f \o Sha256Suffix]) # <<>>

SidecarToken(f) == FirstToken(Strip(assets_dir[f \o Sha256Suffix]))

WarnedMismatch(f) ==
  \E i \in 1..Len(stdout) : stdout[i].msg = "mismatch" /\ stdout[i].name = f

\* C1: for every matched platform the recorded sha256 is the digest of the
\* matched file's bytes; a disagreeing sidecar neither aborts the run, nor
\* removes the platform, nor gets its value into the manifest.
C1_ComputedDigestWins ==
  \A key \in PlatformKeySet :
    (Scanned(key) /\ SelectedFile(key) # NoAsset) =>
      LET f == SelectedFile(key)
          digest == compute_sha256(assets_dir[f])
      IN  /\ key \in DOMAIN platforms
          /\ platforms[key].sha256 = digest
          /\ exit_status # 1
          /\ (pc = "done" =>
                /\ exit_status = 0
                /\ Written
                /\ key \in DOMAIN Manifest.platforms
                /\ Manifest.platforms[key].sha256 = digest
                /\ (HasSidecarToken(f) /\ SidecarToken(f) # digest
                      => Manifest.platforms[key].sha256 # SidecarToken(f)))

C1_Witness ==
  /\ pc = "done"
  /\ Written
  /\ \E key \in DOMAIN Manifest.platforms :
       LET f == SelectedFile(key)
       IN  /\ HasSidecarToken(f)
           /\ Lower(SidecarToken(f)) # Lower(compute_sha256(assets_dir[f]))
           /\ WarnedMismatch(f)
           /\ Manifest.platforms[key].sha256 = compute_sha256(assets_dir[f])

\* C2: the keys of platforms in the written manifest are exactly the targets
\* with a pattern matching a file of assets_dir, and every present key carries
\* a url, a sha256 and a non-negative size.
C2_PlatformKeysExact ==
  (pc = "done" /\ exit_status = 0) =>
    /\ Written
    /\ DOMAIN Manifest.platforms =
         {key \in PlatformKeySet :
            \/ VersionedName(key, version_clean) \in DOMAIN assets_dir
            \/ FallbackName(key) \in DOMAIN assets_dir}
    /\ \A key \in DOMAIN Manifest.platforms :
         /\ DOMAIN Manifest.platforms[key] = {"url", "sha256", "size"}
         /\ Len(Manifest.platforms[key].url) > 0
         /\ Len(Manifest.platforms[key].sha256) > 0
         /\ Manifest.platforms[key].size >= 0

C2_Witness ==
  /\ pc = "done"
  /\ Written
  /\ Cardinality(DOMAIN Manifest.platforms) = 1
  /\ Cardinality(DOMAIN assets_dir \cap CandidateNames) = 2
  /\ DOMAIN assets_dir \subseteq CandidateNames

(* ---- release notes, as the documentation describes them ---- *)
DocLines == SplitLines(release_notes_file)

\* a heading line of the requested version: "# Code Switch v<X>" with X the version without its leading v
IsHeadingOf(line, vc) == line = HeadingPrefix \o vc

HasHeading ==
  /\ release_notes_file # NoFile
  /\ \E i \in 1..Len(DocLines) : IsHeadingOf(DocLines[i], LStripV(version))

IsBlank(line) == \A i \in 1..Len(line) : line[i] \in Whitespace

TrimBlankLines(lines) ==
  LET keep == {i \in 1..Len(lines) : ~IsBlank(lines[i])}
  IN  IF keep = {} THEN <<>> ELSE SubSeq(lines, Min(keep), Max(keep))

\* the body under the first heading of the requested version, up to the next heading line
SectionBody ==
  LET h == Min({i \in 1..Len(DocLines) : IsHeadingOf(DocLines[i], LStripV(version))})
      nxt == {k \in (h + 1)..Len(DocLines) : StartsWithAt(DocLines[k], 1, HeadingPrefix)}
      e == IF nxt = {} THEN Len(DocLines) + 1 ELSE Min(nxt)
  IN  JoinLines(TrimBlankLines(SubSeq(DocLines, h + 1, e - 1)))

NotesExtracted == pc \in {"write", "done"} /\ Len(argv) >= 2 /\ dir_exists

\* C3: when RELEASE_NOTES.md is absent or has no heading line of the
\* requested version, notes is the empty string.
C3_NoHeadingNoNotes ==
  (NotesExtracted /\ ~HasHeading) =>
     /\ notes = <<>>
     /\ (pc = "done" => Manifest.notes = <<>>)

\* C4: when RELEASE_NOTES.md has a heading line of the requested version,
\* notes is the text after that line up to the next "# Code Switch v" line
\* (or the end), trimmed of blank lines; never the heading, never another
\* version's text.
C4_NotesAreTheSection ==
  (NotesExtracted /\ HasHeading) =>
     /\ notes = SectionBody
     /\ (pc = "done" => Manifest.notes = SectionBody)

\* C5: the version field has exactly one leading v; the version given with or
\* without a leading v yields the same version field, patterns and urls; and
\* normalizing a normalized version changes nothing.
C5_VersionNormalized ==
  Len(argv) >= 1 =>
    LET with_v == <<"v">> \o version
        field(x) == <<"v">> \o LStripV(x)
    IN  /\ field(version)[1] = "v"
        /\ (Len(field(version)) > 1 => field(version)[2] # "v")
        /\ field(with_v) = field(version)
        /\ field(field(version)) = field(version)
        /\ platform_configs(LStripV(with_v)) = platform_configs(LStripV(version))
        /\ base_url(LStripV(with_v)) = base_url(LStripV(version))
        /\ (pc = "done" /\ exit_status = 0 =>
              /\ Manifest.version[1] = "v"
              /\ (Len(Manifest.version) > 1 => Manifest.version[2] # "v")
              /\ Manifest.version = field(with_v)
              /\ \A key \in DOMAIN Manifest.platforms :
                   Manifest.platforms[key].url =
                     BaseUrlPrefix \o LStripV(with_v) \o <<"/">>
                       \o VersionedName(key, LStripV(with_v)))

C5_Witness ==
  /\ pc = "done"
  /\ exit_status = 0
  /\ version = <<"v", "v", "1">>
  /\ Manifest.version = <<"v", "1">>
  /\ DOMAIN Manifest.platforms # {}

InitialOutFiles ==
  /\ out_files[DefaultOutput] = OldContent
  /\ out_files[OutputArg] = Absent

\* C6: with fewer than two positional arguments, or with assets_dir missing,
\* the run ends with exit status 1, and at no point reads an asset or writes
\* or overwrites an output file.
C6_UsageAndMissingDirFail ==
  (Len(argv) < 2 \/ ~dir_exists) =>
    /\ writes = 0
    /\ reads = {}
    /\ InitialOutFiles
    /\ pc \in {"args", "dir", "done"}
    /\ (pc = "done" => exit_status = 1)

C6_Witness ==
  /\ pc = "done"
  /\ exit_status = 1
  /\ Len(argv) = 3
  /\ ~dir_exists
  /\ InitialOutFiles

ValidRun == pc = "args" /\ Len(argv) >= 2 /\ dir_exists

Completed ==
  /\ pc = "done"
  /\ exit_status = 0
  /\ writes = 1
  /\ Written
  /\ scan_idx = Len(PlatformKeys) + 1

C8_WarningIffMismatch ==
  \A key \in PlatformKeySet :
    (Scanned(key) /\ SelectedFile(key) # NoAsset) =>
      LET f == SelectedFile(key)
      IN  WarnedMismatch(f) <=>
            /\ HasSidecarToken(f)
            /\ Lower(SidecarToken(f)) # Lower(compute_sha256(assets_dir[f]))

C8_Witness ==
  /\ pc = "done"
  /\ \E key \in DOMAIN platforms :
       LET f == SelectedFile(key)
       IN  /\ HasSidecarToken(f)
           /\ SidecarToken(f) # platforms[key].sha256
           /\ Lower(SidecarToken(f)) = platforms[key].sha256
           /\ ~WarnedMismatch(f)

FoundLine(f) ==
  \E i \in 1..Len(stdout) : stdout[i].msg = "found" /\ stdout[i].name = f

\* C9: the versioned file is selected when present, the unversioned fallback
\* only when the versioned pattern matches nothing, and the recorded sha256
\* and size are those of the selected file.
C9_FirstPatternWins ==
  \A key \in PlatformKeySet :
    Scanned(key) =>
      LET v == CodeSwitchV \o version_clean \o
                 (CASE key = "windows-x86_64" -> ExtExe
                    [] key = "windows-x86_64-installer" -> ExtInstaller
                    [] key = "darwin-aarch64" -> ExtMacArm
                    [] key = "darwin-x86_64" -> ExtMacAmd
                    [] key = "linux-x86_64" -> ExtAppImage)
          u == FallbackName(key)
          chosen == IF v \in DOMAIN assets_dir THEN v ELSE u
      IN  (v \in DOMAIN assets_dir \/ u \in DOMAIN assets_dir) =>
            /\ key \in DOMAIN platforms
            /\ FoundLine(chosen)
            /\ platforms[key].sha256 = compute_sha256(assets_dir[chosen])
            /\ platforms[key].size = Len(assets_dir[chosen])
            /\ (v \in DOMAIN assets_dir /\ u \in DOMAIN assets_dir => ~FoundLine(u))

C9_Witness ==
  /\ pc = "done"
  /\ \E key \in DOMAIN platforms :
       /\ VersionedName(key, version_clean) \in DOMAIN assets_dir
       /\ FallbackName(key) \in DOMAIN assets_dir
       /\ assets_dir[VersionedName(key, version_clean)] # assets_dir[FallbackName(key)]
       /\ platforms[key].size = Len(assets_dir[VersionedName(key, version_clean)])
       /\ platforms[key].size # Len(assets_dir[FallbackName(key)])

\* C10: a present platform's url is the base url of v<version_clean> followed
\* by the platform's versioned filename, whichever pattern matched; the five
\* platforms' urls are pairwise distinct.
C10_UrlIsCanonical ==
  /\ \A key \in DOMAIN platforms :
       platforms[key].url =
         BaseUrlPrefix \o version_clean \o <<"/">> \o VersionedName(key, version_clean)
  /\ (pc = "done" /\ exit_status = 0 => Manifest.platforms = platforms)
  /\ (pc = "write" =>
        \A k1, k2 \in PlatformKeySet :
          k1 # k2 => Record(k1, FallbackName(k1), <<>>, 0).url
                       # Record(k2, FallbackName(k2), <<>>, 0).url)

C10_Witness ==
  /\ pc = "done"
  /\ Cardinality(DOMAIN platforms) = 2
  /\ \E key \in DOMAIN platforms :
       /\ VersionedName(key, version_clean) \notin DOMAIN assets_dir
       /\ FoundLine(FallbackName(key))
       /\ platforms[key].url =
            BaseUrlPrefix \o version_clean \o <<"/">> \o VersionedName(key, version_clean)

====
